---- MODULE Spec2Model ----
(***************************************************************************)
(* The two programs of src/ch-5: 3-struct-param.rs (area of a rectangle    *)
(* through a shared reference) and debug-print.rs (derived Debug output).  *)
(*                                                                         *)
(* A u32 is kept at its full width of 32 bits.  Since the model checker's  *)
(* own integers are narrower than a product of two u32, a u32 is a tuple   *)
(* of NDigits digits in base Base, least significant digit first, and the  *)
(* exact product of two u32 is a tuple of 2*NDigits digits.                *)
(***************************************************************************)
EXTENDS Integers, Sequences, FiniteSets, TLC

(* ---------------------------------------------------------------- bounds *)

\* Inputs of the area function are drawn from 0..MaxSmall and from the
\* values within MaxSmall of 2^16 and of 2^32-1 (plus 2^31 and the literals).
MaxSmall == 2

(* ------------------------------------------------------------ u32 values *)

\* width of the fields `width: u32`, `height: u32`
Bits == 32

Base == 2^8

NDigits == Bits \div 8

Digit == 0..(Base - 1)

U32 == [1..NDigits -> Digit]

\* the u32 with the value n, for 0 <= n < 2^31
FromInt(n) == [i \in 1..NDigits |-> (n \div (Base^(i-1))) % Base]

Zero == FromInt(0)

\* the largest u32, 2^32-1
MaxU32 == [i \in 1..NDigits |-> Base - 1]

\* n-th column of the schoolbook product of the digit tuples a and b
ColSum(a, b, k) ==
    LET S[i \in 0..Len(a)] ==
            IF i = 0 THEN 0
            ELSE S[i-1] + (IF (k + 1 - i) \in 1..Len(b)
                           THEN a[i] * b[k + 1 - i] ELSE 0)
    IN  S[Len(a)]

\* the exact (mathematical) product of two digit tuples, Len(a)+Len(b) digits
NatMul(a, b) ==
    LET n == Len(a) + Len(b)
        T[k \in 0..n] == IF k = 0 THEN 0
                         ELSE ColSum(a, b, k) + (T[k-1] \div Base)
    IN  [k \in 1..n |-> T[k] % Base]

\* the low 32 bits of a product: its value modulo 2^32
Low(p) == [i \in 1..NDigits |-> p[i]]

\* TRUE iff the product p exceeds 2^32-1
Overflows(p) == \E i \in (NDigits + 1)..Len(p) : p[i] /= 0

\* the value of the digit tuple x modulo m (m*Base within the integers)
Residue(x, m) ==
    LET R[i \in 0..Len(x)] ==
            IF i = 0 THEN 0
            ELSE (R[i-1] * Base + x[Len(x) + 1 - i]) % m
    IN  R[Len(x)]

\* quotient of the u32 x by the small divisor d
DivSmall(x, d) ==
    LET R[i \in 0..NDigits] ==
            IF i = 0 THEN 0
            ELSE (R[i-1] * Base + x[NDigits + 1 - i]) % d
    IN  [i \in 1..NDigits |->
            (R[NDigits - i] * Base + x[i]) \div d]

(* ------------------------------------------------------------ formatting *)

DigitChar == <<"0", "1", "2", "3", "4", "5", "6", "7", "8", "9">>

\* decimal digits of a non-zero u32, most significant first
RECURSIVE Decimal(_)
Decimal(x) ==
    IF x = Zero THEN <<>>
    ELSE Decimal(DivSmall(x, 10)) \o <<DigitChar[Residue(x, 10) + 1]>>

\* `{}` and `{:?}` of a u32: its decimal digits, "0" for zero
DisplayU32(x) == IF x = Zero THEN <<"0">> ELSE Decimal(x)

\* the text of println!("The area of the rectangle is {}.", v)
AreaLine(v) ==
    <<"T", "h", "e", " ", "a", "r", "e", "a", " ", "o", "f", " ", "t", "h", "e", " ", "r", "e", "c", "t", "a", "n", "g", "l", "e", " ", "i", "s", " ">>
    \o DisplayU32(v) \o <<".", "\n">>

\* `{:?}` of a Rect with the fields in the wrong order
DebugRectReversed(r) ==
    <<"R", "e", "c", "t">> \o <<" ", "{", " ">>
    \o <<"h", "e", "i", "g", "h", "t">> \o <<":", " ">> \o DisplayU32(r.height)
    \o <<",", " ">>
    \o <<"w", "i", "d", "t", "h">> \o <<":", " ">> \o DisplayU32(r.width)
    \o <<" ", "}">>

\* `{:?}` of a Rect, as #[derive(Debug)] writes it: the type name, then the
\* fields in declaration order
DebugRect(r) ==
    <<"R", "e", "c", "t">> \o <<" ", "{", " ">>
    \o <<"w", "i", "d", "t", "h">> \o <<":", " ">> \o DisplayU32(r.width)
    \o <<",", " ">>
    \o <<"h", "e", "i", "g", "h", "t">> \o <<":", " ">> \o DisplayU32(r.height)
    \o <<" ", "}">>

\* the text of println!("Rect is {:?}", rect)
DebugLine(r) ==
    <<"R", "e", "c", "t", " ", "i", "s", " ">> \o DebugRect(r) \o <<"\n">>

\* an unbuffered stdout: every byte is written out at once
ShouldFlushAlways(c) == TRUE

\* stdout is line buffered: the buffer is written out when a newline arrives
ShouldFlush(c) == c = "\n"

(* --------------------------------------------------------------- programs *)

VARIABLES
    prog,             \* which program runs: "area" or "debug"
    overflow_checks,  \* build mode: TRUE for a debug build, FALSE for release
    lit,              \* the field values written in the Rect literal of main
    pc,               \* position of main
    rect,             \* main's local `rect`: <<>> while it does not exist
    result,           \* the value area returned: <<>> while there is none
    todo,             \* bytes println! has still to write
    buf,              \* stdout's line buffer
    stdout,           \* the writes that reached standard output, in order
    stderr,           \* the messages written to standard error
    exit_code         \* <<>> while the process runs, then its exit status

vars == <<prog, overflow_checks, lit, pc, rect, result, todo, buf, stdout,
          stderr, exit_code>>

\* the literal of both main functions
LitWidth == 30

LitHeight == 50

MainLit == [width |-> FromInt(LitWidth), height |-> FromInt(LitHeight)]

\* the values the area function is exercised with
Inputs ==
    {FromInt(n) : n \in 0..MaxSmall}
    \cup {FromInt(2^16 + k) : k \in (0 - MaxSmall)..MaxSmall}
    \cup {[i \in 1..NDigits |-> IF i = 1 THEN Base - 1 - k ELSE Base - 1] :
             k \in 0..MaxSmall}
    \cup {[i \in 1..NDigits |-> IF i = NDigits THEN Base \div 2 ELSE 0]}
    \cup {FromInt(LitWidth), FromInt(LitHeight)}

\* area with the operands confused: width * width
area_square(r, checks) ==
    LET p == NatMul(r.width, r.width)
    IN  IF checks /\ Overflows(p)
        THEN [panicked |-> TRUE, value |-> <<>>]
        ELSE [panicked |-> FALSE, value |-> <<Low(p)>>]

\* area that rejects an empty rectangle
area_nonzero(r, checks) ==
    LET p == NatMul(r.width, r.height)
    IN  IF r.width = Zero \/ r.height = Zero \/ (checks /\ Overflows(p))
        THEN [panicked |-> TRUE, value |-> <<>>]
        ELSE [panicked |-> FALSE, value |-> <<Low(p)>>]

\* area that wraps in every build mode
area_wrapping(r, checks) ==
    [panicked |-> FALSE, value |-> <<Low(NatMul(r.width, r.height))>>]

\* area whose overflow check is the one of a signed 32-bit product
area_signed(r, checks) ==
    LET p == NatMul(r.width, r.height)
    IN  IF checks /\ (Overflows(p) \/ p[NDigits] >= Base \div 2)
        THEN [panicked |-> TRUE, value |-> <<>>]
        ELSE [panicked |-> FALSE, value |-> <<Low(p)>>]

\* fn area(rect: &Rect) -> u32 { rect.width * rect.height }
\* The u32 product panics on overflow when overflow checks are compiled in
\* and wraps modulo 2^32 when they are not.
area(r, checks) ==
    LET p == NatMul(r.width, r.height)
    IN  IF checks /\ Overflows(p)
        THEN [panicked |-> TRUE, value |-> <<>>]
        ELSE [panicked |-> FALSE, value |-> <<Low(p)>>]

\* main's `rect` after a call that took the Rect by value
Moved(slot) == <<>>

\* main's `rect` after a call that borrowed it as `&rect`
Borrowed(slot) == slot

\* `let rect = Rect { width: .., height: .. }` with the fields exchanged
RectLiteralSwapped(l) == [width |-> l.height, height |-> l.width]

\* `let rect = Rect { width: .., height: .. }`
RectLiteral(l) == [width |-> l.width, height |-> l.height]

Start ==
    /\ overflow_checks \in BOOLEAN
    /\ pc = "start"
    /\ rect = <<>>
    /\ result = <<>>
    /\ todo = <<>>
    /\ buf = <<>>
    /\ stdout = <<>>
    /\ stderr = <<>>
    /\ exit_code = <<>>

\* the two programs as written
Init ==
    /\ prog \in {"area", "debug"}
    /\ lit = MainLit
    /\ Start

\* the area program with any Rect literal
InitArea ==
    /\ prog = "area"
    /\ lit \in [width : Inputs, height : Inputs]
    /\ Start

\* let rect = Rect { width: 30, height: 50 };
Construct ==
    /\ pc = "start"
    /\ rect' = <<RectLiteral(lit)>>
    /\ pc' = "constructed"
    /\ UNCHANGED <<prog, overflow_checks, lit, result, todo, buf, stdout,
                   stderr, exit_code>>

\* area(&rect), the argument of println! in 3-struct-param.rs.  A panic in
\* area is not caught: it is reported on standard error, main is unwound and
\* the process ends with status 101.
CallArea ==
    /\ prog = "area"
    /\ pc = "constructed"
    /\ LET r == area(rect[1], overflow_checks)
       IN  IF r.panicked
           THEN /\ pc' = "exited"
                /\ result' = <<>>
                /\ rect' = <<>>
                /\ stderr' = Append(stderr, "attempt to multiply with overflow")
                /\ exit_code' = <<101>>
           ELSE /\ pc' = "computed"
                /\ result' = r.value
                /\ rect' = Borrowed(rect)
                /\ UNCHANGED <<stderr, exit_code>>
    /\ UNCHANGED <<prog, overflow_checks, lit, todo, buf, stdout>>

\* println!(..): the arguments are formatted and handed to stdout
Println ==
    /\ \/ prog = "area" /\ pc = "computed"
       \/ prog = "debug" /\ pc = "constructed"
    /\ todo' = IF prog = "area" THEN AreaLine(result[1])
               ELSE DebugLine(rect[1])
    /\ rect' = Borrowed(rect)
    /\ pc' = "printing"
    /\ UNCHANGED <<prog, overflow_checks, lit, result, buf, stdout, stderr,
                   exit_code>>

\* stdout takes the next byte of the line
WriteByte ==
    /\ pc = "printing"
    /\ todo /= <<>>
    /\ LET c == Head(todo)
       IN  IF ShouldFlush(c)
           THEN /\ stdout' = Append(stdout, Append(buf, c))
                /\ buf' = <<>>
           ELSE /\ buf' = Append(buf, c)
                /\ stdout' = stdout
    /\ todo' = Tail(todo)
    /\ pc' = IF Tail(todo) = <<>> THEN "printed" ELSE "printing"
    /\ UNCHANGED <<prog, overflow_checks, lit, rect, result, stderr,
                   exit_code>>

\* main returns: rect is dropped, stdout is flushed, the process ends with 0
Exit ==
    /\ pc = "printed"
    /\ pc' = "exited"
    /\ rect' = <<>>
    /\ stdout' = IF buf = <<>> THEN stdout ELSE Append(stdout, buf)
    /\ buf' = <<>>
    /\ exit_code' = <<0>>
    /\ UNCHANGED <<prog, overflow_checks, lit, result, todo, stderr>>

Next ==
    \/ Construct
    \/ CallArea
    \/ Println
    \/ WriteByte
    \/ Exit

Spec == Init /\ [][Next]_vars

\* the program is not suspended before it ends
FairSpec == Spec /\ WF_vars(Next)

SpecArea == InitArea /\ [][Next]_vars

(* ----------------------------------------------------------- properties *)

\* the exact product of the two fields of the literal
Product == NatMul(lit.width, lit.height)

\* the product is representable as a u32
Fits == ~Overflows(Product)

\* the call of area is over (it returned or it panicked)
AfterCall == prog = "area" /\ pc \notin {"start", "constructed"}

\* pairwise coprime moduli whose product exceeds 2^32: two numbers below 2^32
\* that agree modulo each of them are equal
Moduli == {2^15, 3^9, 5^6}

\* r is congruent to w * h modulo m
CongruentToProduct(r, w, h, m) ==
    Residue(r, m) = (Residue(w, m) * Residue(h, m)) % m

ExpectedAreaOutput ==
    <<"T", "h", "e", " ", "a", "r", "e", "a", " ", "o", "f", " ", "t", "h", "e", " ", "r", "e", "c", "t", "a", "n", "g", "l", "e", " ", "i", "s", " ", "1", "5", "0", "0", ".", "\n">>

ExpectedDebugOutput ==
    <<"R", "e", "c", "t", " ", "i", "s", " ", "R", "e", "c", "t", " ", "{", " ", "w", "i", "d", "t", "h", ":", " ", "3", "0", ",", " ", "h", "e", "i", "g", "h", "t", ":", " ", "5", "0", " ", "}", "\n">>

\* C1: the area program writes exactly the line
\* "The area of the rectangle is 1500." to stdout and ends with exit code 0,
\* in both build modes; it never panics and always terminates.
C1_AreaProgramOutput ==
    /\ [](prog = "area" =>
            /\ stderr = <<>>
            /\ exit_code \in {<<>>, <<0>>}
            /\ stdout \in {<<>>, <<ExpectedAreaOutput>>}
            /\ pc = "exited" =>
                  stdout = <<ExpectedAreaOutput>> /\ exit_code = <<0>>)
    /\ <>(prog = "area" => pc = "exited")

C1_Witness ==
    /\ prog = "area" /\ pc = "exited" /\ overflow_checks
    /\ Len(stdout) = 1 /\ exit_code = <<0>>

\* C2: whenever width * height does not exceed 2^32-1, area returns exactly
\* width * height.
C2_AreaIsProduct ==
    (AfterCall /\ Fits) =>
        /\ Len(result) = 1
        /\ Product = result[1] \o [i \in 1..NDigits |-> 0]
        /\ \A m \in Moduli :
              CongruentToProduct(result[1], lit.width, lit.height, m)

C2_Witness ==
    /\ pc = "computed" /\ Fits
    /\ lit.width = FromInt(2^16 - 1) /\ lit.height = FromInt(2^16 + 1)
    /\ result = <<MaxU32>>

\* C3: the call of area leaves the caller's rect in place with the field
\* values it had, and changes nothing but main's position and the returned
\* value; rect stays usable until main ends.
C3_AreaFrame ==
    /\ [][(prog = "area" /\ pc = "constructed" /\ pc' = "computed") =>
            /\ rect' = rect
            /\ Len(rect') = 1
            /\ UNCHANGED <<prog, overflow_checks, lit, todo, buf, stdout,
                           stderr, exit_code>>]_vars
    /\ [](prog = "area" /\ pc \in {"computed", "printing", "printed"} =>
            rect = <<[width |-> lit.width, height |-> lit.height]>>)

C3_Witness ==
    /\ prog = "area" /\ pc = "computed"
    /\ Len(rect) = 1 /\ Len(result) = 1
    /\ lit.width /= lit.height

\* C4: the debug-print program writes exactly the line
\* "Rect is Rect { width: 30, height: 50 }" to stdout (type name, then width
\* with 30, then height with 50) and ends with exit code 0.
C4_DebugProgramOutput ==
    prog = "debug" =>
        /\ stderr = <<>>
        /\ exit_code \in {<<>>, <<0>>}
        /\ stdout \in {<<>>, <<ExpectedDebugOutput>>}
        /\ pc = "exited" =>
              stdout = <<ExpectedDebugOutput>> /\ exit_code = <<0>>

C4_Witness ==
    prog = "debug" /\ pc = "exited" /\ Len(stdout) = 1 /\ exit_code = <<0>>

\* C5: with width 0 the rectangle is constructed as written and area
\* returns 0 for every height, without overflow or failure.
C5_ZeroWidth ==
    (prog = "area" /\ lit.width = Zero) =>
        /\ pc = "constructed" => rect = <<[width |-> Zero, height |-> lit.height]>>
        /\ AfterCall =>
              result = <<Zero>> /\ stderr = <<>> /\ exit_code /= <<101>>

C5_Witness ==
    /\ pc = "computed" /\ overflow_checks
    /\ lit.width = Zero /\ lit.height = MaxU32
    /\ result = <<Zero>>

\* C6: when the product does not overflow, area of the rectangle equals area
\* of the rectangle with width and height exchanged.
C6_AreaCommutes ==
    (AfterCall /\ Fits) =>
        result = area([width |-> lit.height, height |-> lit.width],
                      overflow_checks).value

C6_Witness ==
    /\ pc = "computed" /\ Fits
    /\ lit.width = FromInt(2) /\ lit.height = FromInt(2^16 + 1)
    /\ result /= <<Zero>>

\* C7: when width * height exceeds 2^32-1, a build with overflow checks
\* panics in area (no value returned, nothing printed), a build without
\* them returns the product modulo 2^32; a returned value is always a u32.
C7_OverflowByBuildMode ==
    /\ \A i \in 1..Len(result) : result[i] \in U32
    /\ (AfterCall /\ ~Fits) =>
          IF overflow_checks
          THEN /\ pc = "exited"
               /\ result = <<>>
               /\ stdout = <<>> /\ buf = <<>> /\ todo = <<>>
               /\ stderr /= <<>>
               /\ exit_code = <<101>>
          ELSE /\ result = <<Low(Product)>>
               /\ CongruentToProduct(result[1], lit.width, lit.height, 2^15)
               /\ stderr = <<>>
               /\ exit_code /= <<101>>

C7_Witness ==
    /\ prog = "area" /\ overflow_checks /\ ~Fits
    /\ pc = "exited" /\ exit_code = <<101>>
    /\ stdout = <<>> /\ result = <<>>

\* the order of main's positions in each program
Steps ==
    IF prog = "area"
    THEN {<<"start", "constructed">>, <<"constructed", "computed">>,
          <<"computed", "printing">>, <<"printing", "printed">>,
          <<"printed", "exited">>}
    ELSE {<<"start", "constructed">>, <<"constructed", "printing">>,
          <<"printing", "printed">>, <<"printed", "exited">>}

\* C8: each run is the sequence construct, compute or format, print, exit:
\* the line reaches stdout exactly once, after the rectangle exists and the
\* text is completely formatted; after it only the exit follows; every run
\* terminates.
C8_FixedSequence ==
    /\ [][pc' /= pc => <<pc, pc'>> \in Steps]_vars
    /\ [][stdout' /= stdout =>
            /\ stdout = <<>>
            /\ Len(rect) = 1
            /\ prog = "area" => Len(result) = 1
            /\ todo' = <<>>
            /\ pc' = "printed"]_vars
    /\ [][pc = "printed" => (pc' = "exited" /\ stdout' = stdout)]_vars
    /\ [](pc = "exited" => Len(stdout) = 1)
    /\ <>(pc = "exited")

C8_Witness ==
    prog = "debug" /\ pc = "printed" /\ Len(stdout) = 1 /\ todo = <<>>

\* C9: from construction until main ends, rect has width 30 and height 50
\* and is still owned by main, also after the area call and the formatting.
C9_RectImmutable ==
    pc \in {"constructed", "computed", "printing", "printed"} =>
        rect = <<[width |-> FromInt(30), height |-> FromInt(50)]>>

C9_Witness ==
    /\ prog = "area" /\ pc = "printed" /\ Len(stdout) = 1
    /\ rect = <<[width |-> FromInt(30), height |-> FromInt(50)]>>

\* C10: when the product does not overflow, the build with overflow checks
\* and the build without them return the same value and neither panics.
C10_BuildModesAgree ==
    (AfterCall /\ Fits) =>
        /\ ~area(RectLiteral(lit), TRUE).panicked
        /\ ~area(RectLiteral(lit), FALSE).panicked
        /\ area(RectLiteral(lit), TRUE) = area(RectLiteral(lit), FALSE)
        /\ result = area(RectLiteral(lit), ~overflow_checks).value
        /\ exit_code /= <<101>>

C10_Witness ==
    /\ pc = "computed" /\ overflow_checks /\ Fits
    /\ Len(result) = 1 /\ result[1][NDigits] >= Base \div 2

====
